---- MODULE Spec2Model ----
(***************************************************************************)
(* Owned dense array (GridArray) of the mdarray crate: shape bookkeeping   *)
(* over a growable vector, and the nested-sequence (serde) encoding.       *)
(*                                                                         *)
(* Elements are stored in column-major order: dimension 1 of a shape (the  *)
(* source's index 0) varies fastest and the last dimension (the source's   *)
(* index RANK-1, the "outer" dimension) varies slowest.  Shapes are        *)
(* 1-based sequences here, so source dimension d is shape[d+1].            *)
(***************************************************************************)
EXTENDS Integers, Sequences, FiniteSets, TLC

\* ---------------------------------------------------------------- bounds
\* largest size per dimension handed to a constructor
MaxDim == 2
\* largest capacity the allocator hands out
MaxCap == 4
\* number of element objects alive at an operation boundary
MaxId == 5
\* largest size per dimension handed to from_fn with a value-returning f
MaxFnDim == 3
\* largest size per dimension of an encoded array
MaxSerDim == 2
\* largest number of items in the outer sequence handed to the decoder
MaxItems == 3

VARIABLES
    g,        \* the two array variables: "a" and "b"
    raw,      \* the raw parts returned by into_raw_parts and not yet rebuilt
    last,     \* the operation performed last: its name, its argument (for
              \* append the receiver's shape before the call), its outcome,
              \* the objects it destructed, where each object it left came
              \* from, and whether it came right after clear or truncate(0)
    fnrun,    \* an array of values built by from_fn: the function, the calls
              \* made to it and the array, before and after truncate
    wire,     \* an array, its nested-sequence encoding and the array decoded
    ctor      \* one run of from_fn or from_elem, statement by statement: the
              \* vector's length and slots, the calls made and the outcome

vars == <<g, raw, last, fnrun, wire, ctor>>

Names == {"a", "b"}
Other(x) == IF x = "a" THEN "b" ELSE "a"

\* ------------------------------------------------------- sequence helpers
RECURSIVE Product(_)
Product(s) == IF s = <<>> THEN 1 ELSE Head(s) * Product(Tail(s))

Min(m, n) == IF m < n THEN m ELSE n
Max(m, n) == IF m < n THEN n ELSE m

Take(s, n) == SubSeq(s, 1, Min(n, Len(s)))
Drop(s, n) == SubSeq(s, Min(n, Len(s)) + 1, Len(s))
Range(s) == {s[i] : i \in DOMAIN s}
Count(s, e) == Cardinality({i \in DOMAIN s : s[i] = e})
Zeros(r) == [i \in 1..r |-> 0]

\* ------------------------------------------------------------------ layout
\* shape[..].iter().fold(1, |acc, &x| acc.saturating_mul(x)): the capacity
\* asked for by from_elem and from_fn (no saturation within the bounds).
ShapeLen(shape) == Product(shape)

\* DenseLayout::len(): the element count of a layout is the product of its sizes.
LayoutLen(shape) == Product(shape)

\* Layout::default(): every size is 0.
LayoutDefault(r) == Zeros(r)

\* DenseLayout::resize_dim(dim, size): one size replaced, the others kept.
ResizeDim(shape, dim, size) == [shape EXCEPT ![dim] = size]

\* size(RANK - 1): the size of the outer dimension.
Outer(shape) == shape[Len(shape)]

\* shape[..RANK - 1]: the sizes of the non-outer dimensions.
Inner(shape) == SubSeq(shape, 1, Len(shape) - 1)

\* --------------------------------------------------------------- the array
\* GridArray { buffer: GridBuffer { vec, layout } }: the shape of the dense
\* layout, the initialized elements of the vector and the vector's capacity.
\* An element is an object, modelled by its number among the objects alive.
Arr(shape, vec, cap) == [live |-> TRUE, shape |-> shape, vec |-> vec, cap |-> cap]

\* A variable that holds no array: not bound yet, moved out of (self taken by
\* value) or dropped.
Moved == [live |-> FALSE, shape |-> <<>>, vec |-> <<>>, cap |-> 0]

\* No raw parts outstanding.
RawNone ==
    [some |-> FALSE, ptr |-> [slots |-> <<>>, cap |-> 0], shape |-> <<>>,
     capacity |-> 0, orig |-> Moved]

Rank(x) == Len(g[x].shape)
IsEmpty(x) == Len(g[x].vec) = 0

\* The rank is the compile-time parameter D.  The array machine instantiates
\* it with Const<1> (no inner dimension; the rank of Extend and From<Vec>) and
\* Const<2> (the smallest rank with an inner dimension).
Ranks == {1, 2}
Sizes == 0..MaxDim
Shapes(r) == [1..r -> Sizes]
AllShapes == UNION {Shapes(r) : r \in Ranks}
Caps == 0..MaxCap

\* The element objects alive, in the order in which their owners hold them:
\* those of array a, those of array b, those of an allocation handed out as
\* raw parts.  Objects are numbered by their place in this list, and the
\* numbering is renewed at every operation boundary, so a number identifies
\* an object within one state and last.was links it to the state before.
Live(gg, rr) == gg["a"].vec \o gg["b"].vec \o rr.ptr.slots

\* n new element objects: the i-th object an operation creates is numbered -i
\* until the operation's boundary
Fresh(n) == [i \in 1..n |-> 0 - i]

\* one clone (a new object) per element of s, in the order of s
Clones(s) == Fresh(Len(s))

\* the new number of object e: its first place in the list of objects alive
Renumber(live, e) ==
    IF e \in Range(live)
    THEN CHOOSE i \in DOMAIN live : live[i] = e /\ \A j \in 1..(i - 1) : live[j] # e
    ELSE 0

RenumberAll(live, s) == [i \in DOMAIN s |-> Renumber(live, s[i])]

\* One operation boundary: the new arrays and raw parts (their objects under
\* the numbers of the state before), the outcome and the objects destructed.
StepWith(op, arg, ng, nraw, out, dropped) ==
    LET live == Live(ng, nraw)
    IN  /\ Len(live) <= MaxId
        /\ g' = [x \in Names |-> [ng[x] EXCEPT !.vec = RenumberAll(live, @)]]
        /\ raw' = [nraw EXCEPT !.ptr.slots = RenumberAll(live, @),
                               !.orig.vec = RenumberAll(live, @)]
        /\ last' = [op |-> op, arg |-> arg, out |-> out, dropped |-> dropped,
                    after |-> IF last.op = "clear" THEN "clear"
                              ELSE IF last.op = "truncate" /\ last.arg = <<0>>
                                   THEN "truncate(0)" ELSE "other",
                    was |-> [a |-> ng["a"].vec, b |-> ng["b"].vec,
                             raw |-> nraw.ptr.slots]]
        /\ UNCHANGED <<fnrun, wire, ctor>>

\* an operation boundary of which only the name is recorded
Step(op, ng, nraw, out, dropped) == StepWith(op, <<>>, ng, nraw, out, dropped)

\* let x = <constructor>: the array is built and bound to a variable that
\* holds none.
Construct(op, x, arr) ==
    /\ ~g[x].live
    /\ arr.cap <= MaxCap
    /\ Step(op, [g EXCEPT ![x] = arr], raw, "ok", <<>>)

\* drop(x): the array goes out of scope; the vector destructs its elements
\* and frees its storage.
drop(x) ==
    /\ g[x].live
    /\ Step("drop", [g EXCEPT ![x] = Moved], raw, "ok", g[x].vec)

\* from_parts: debug_assert!(vec.len() == layout.len(), "length mismatch")
FromParts(vec, cap, shape) == Arr(shape, vec, cap)

\* GridArray::new
new(x, r) == Construct("new", x, FromParts(<<>>, 0, LayoutDefault(r)))

\* GridArray::with_capacity
with_capacity(x, r, c) ==
    Construct("with_capacity", x, FromParts(<<>>, c, LayoutDefault(r)))

\* The functions handed to from_fn (f: impl FnMut(D::Shape) -> T), by what
\* the k-th call returns for the index tuple it is given (index[d] read as 0
\* beyond the rank): a new object ("fresh": the k-th object created is numbered
\* -k), i[0]*3 + i[1] ("lin3"), the index tuple read as a number in base
\* MaxFnDim + 2 ("digits", one value per tuple), and the number of calls made
\* so far ("count", an f with state).
Idx(index, d) == IF d <= Len(index) THEN index[d] ELSE 0

Apply(f, index, k) ==
    CASE f = "fresh" -> 0 - k
      [] f = "lin3" -> Idx(index, 1) * 3 + Idx(index, 2)
      [] f = "digits" -> Idx(index, 1) + (MaxFnDim + 2) * Idx(index, 2)
                         + (MaxFnDim + 2) * (MaxFnDim + 2) * Idx(index, 3)
      [] f = "count" -> k

\* from_fn::<T, D, A, I>: acc is the vector written so far, its capacity, the
\* index tuples (0-based values) f was called with, in call order, and whether
\* the debug assertion has held.  d is the dimension I::RANK + 1 the loop runs
\* over and i its loop variable; the loop over dimension 1 (I::RANK == 0)
\* asserts vec.len() < vec.capacity() and writes f(index) at vec.len().
RECURSIVE FromFnLoop(_, _, _, _, _, _)
FromFnLoop(shape, index, d, i, f, acc) ==
    IF ~acc.ok \/ i >= shape[d] THEN acc
    ELSE LET idx == [index EXCEPT ![d] = i]
             inner ==
                 IF d = 1
                 THEN IF Len(acc.vec) < acc.cap
                      THEN [acc EXCEPT
                               !.vec = Append(@, Apply(f, idx, Len(acc.calls) + 1)),
                               !.calls = Append(@, idx)]
                      ELSE [acc EXCEPT !.ok = FALSE]
                 ELSE FromFnLoop(shape, idx, d - 1, 0, f, acc)
         IN  FromFnLoop(shape, idx, d, i + 1, f, inner)

\* the same loops nested the other way round: dimension 1 outermost
RECURSIVE FromFnLoopUp(_, _, _, _, _, _)
FromFnLoopUp(shape, index, d, i, f, acc) ==
    IF ~acc.ok \/ i >= shape[d] THEN acc
    ELSE LET idx == [index EXCEPT ![d] = i]
             inner ==
                 IF d = Len(shape)
                 THEN IF Len(acc.vec) < acc.cap
                      THEN [acc EXCEPT
                               !.vec = Append(@, Apply(f, idx, Len(acc.calls) + 1)),
                               !.calls = Append(@, idx)]
                      ELSE [acc EXCEPT !.ok = FALSE]
                 ELSE FromFnLoopUp(shape, idx, d + 1, 0, f, acc)
         IN  FromFnLoopUp(shape, idx, d, i + 1, f, inner)

\* from_fn filling the vector in row-major order
FromFnRowMajor(shape, f) ==
    LET len == ShapeLen(shape)
        done == FromFnLoopUp(shape, Zeros(Len(shape)), 1, 0, f,
                             [vec |-> <<>>, cap |-> len, calls |-> <<>>, ok |-> TRUE])
    IN  [ok |-> done.ok, arr |-> FromParts(done.vec, len, shape), calls |-> done.calls]

\* GridArray::from_fn: a vector of capacity len, filled by the free function
\* called with I = D::Lower and index = D::Shape::default()
FromFn(shape, f) ==
    LET len == ShapeLen(shape)
        done == FromFnLoop(shape, Zeros(Len(shape)), Len(shape), 0, f,
                           [vec |-> <<>>, cap |-> len, calls |-> <<>>, ok |-> TRUE])
    IN  [ok |-> done.ok, arr |-> FromParts(done.vec, len, shape), calls |-> done.calls]

\* GridArray::from_elem: slot i is written with a clone of elem, i in 0..len
from_elem(x, shape) ==
    LET len == ShapeLen(shape)
        vec == [i \in 1..len |-> Fresh(len)[i]]
    IN  Construct("from_elem", x, FromParts(vec, len, shape))

\* GridArray::from_fn with an f that returns a new object on every call
from_fn(x, shape) == Construct("from_fn", x, FromFn(shape, "fresh").arr)

\* From<Vec<T>> for GridArray<T, Const<1>>: a vector of n elements, capacity c
from_vec(x, n, c) ==
    /\ Construct("from_vec", x, FromParts(Fresh(n), c, <<n>>))

\* Vec::reserve: the capacities the vector may have afterwards
ReserveCaps(len, cap, additional) ==
    IF cap - len >= additional THEN {cap} ELSE (len + additional)..MaxCap

\* Vec::reserve_exact reallocating to the requested size even when the spare
\* capacity already suffices
ReserveExactCapTight(len, cap, additional) ==
    len + additional

\* Vec::reserve_exact
ReserveExactCap(len, cap, additional) ==
    IF cap - len >= additional THEN cap ELSE len + additional

\* Vec::shrink_to
ShrinkToCap(len, cap, min_capacity) ==
    IF cap > Max(len, min_capacity) THEN Max(len, min_capacity) ELSE cap

\* Vec::truncate keeping the last len elements instead of the first
VecTruncateTail(vec, len) ==
    [keep |-> SubSeq(vec, Len(vec) - Min(len, Len(vec)) + 1, Len(vec)),
     drop |-> SubSeq(vec, 1, Len(vec) - Min(len, Len(vec)))]

\* Vec::truncate: the elements kept and the elements dropped
VecTruncate(vec, len) == [keep |-> Take(vec, len), drop |-> Drop(vec, len)]

\* Vec::append copying the source instead of moving out of it
VecAppendCopy(dst, src) == [dst |-> dst \o src, src |-> src]

\* Vec::append: the destination with every element of the source moved to its
\* end, and the source left with no elements
VecAppend(dst, src) == [dst |-> dst \o src, src |-> <<>>]

\* an operation on live arrays
Mutate(op, ng, out, dropped) == Step(op, ng, raw, out, dropped)

\* the same, recording the argument the operation was called with
MutateArg(op, arg, ng, out, dropped) == StepWith(op, arg, ng, raw, out, dropped)

\* the shape check with the outer sizes added whether or not self is empty
NewShapeSum(self, other) ==
    IF Len(self.vec) # 0 /\ Inner(other.shape) # Inner(self.shape)
    THEN [ok |-> FALSE, shape |-> self.shape]
    ELSE [ok |-> TRUE,
          shape |-> [other.shape EXCEPT
                        ![Len(self.shape)] = @ + Outer(self.shape)]]

\* the shape check without the assertion
NewShapeUnchecked(self, other) ==
    IF Len(self.vec) = 0
    THEN [ok |-> TRUE, shape |-> other.shape]
    ELSE [ok |-> TRUE,
          shape |-> [self.shape EXCEPT ![Len(self.shape)] = @ + Outer(other.shape)]]

\* the shape check asserting on the inner sizes of an empty self too
NewShapeAlwaysChecked(self, other) ==
    IF Inner(other.shape) # Inner(self.shape)
    THEN [ok |-> FALSE, shape |-> self.shape]
    ELSE IF Len(self.vec) = 0
         THEN [ok |-> TRUE, shape |-> other.shape]
         ELSE [ok |-> TRUE,
               shape |-> [self.shape EXCEPT ![Len(self.shape)] = @ + Outer(other.shape)]]

\* the shape check shared by append and extend_from_span:
\* self.is_empty() => other's shape, else assert on the inner sizes
NewShape(self, other) ==
    IF Len(self.vec) = 0
    THEN [ok |-> TRUE, shape |-> other.shape]
    ELSE IF Inner(other.shape) # Inner(self.shape)
         THEN [ok |-> FALSE, shape |-> self.shape]
         ELSE [ok |-> TRUE,
               shape |-> [self.shape EXCEPT ![Len(self.shape)] = @ + Outer(other.shape)]]

\* GridArray::append reserving room for other's elements before the shape
\* check
append_reserve_first(x, y) ==
    /\ x # y /\ g[x].live /\ g[y].live /\ Rank(x) = Rank(y)
    /\ LET ns == NewShape(g[x], g[y])
           v == VecAppend(g[x].vec, g[y].vec)
       IN  \E c \in ReserveCaps(Len(g[x].vec), g[x].cap, Len(g[y].vec)) :
              IF ~ns.ok
              THEN Mutate("append", [g EXCEPT ![x].cap = c], "panic", <<>>)
              ELSE Mutate("append", [g EXCEPT ![x] = Arr(ns.shape, v.dst, c),
                                     ![y] = Arr(LayoutDefault(Rank(y)), v.src, g[y].cap)],
                          "ok", <<>>)

\* GridArray::append
append(x, y) ==
    /\ x # y /\ g[x].live /\ g[y].live /\ Rank(x) = Rank(y)
    /\ LET ns == NewShape(g[x], g[y])
           v == VecAppend(g[x].vec, g[y].vec)
       IN  IF ~ns.ok
           THEN Mutate("append", g, "panic", <<>>)
           ELSE \E c \in ReserveCaps(Len(g[x].vec), g[x].cap, Len(g[y].vec)) :
                  MutateArg("append", g[x].shape,
                            [g EXCEPT ![x] = Arr(ns.shape, v.dst, c),
                                      ![y] = Arr(LayoutDefault(Rank(y)), v.src, g[y].cap)],
                            "ok", <<>>)

\* GridArray::clear
clear(x) ==
    /\ g[x].live
    /\ Mutate("clear", [g EXCEPT ![x] = Arr(LayoutDefault(Rank(x)), <<>>, g[x].cap)],
              "ok", g[x].vec)

\* truncate with the vector cut to `size` elements, not to new_layout.len()
TruncateToSize(arr, size) ==
    IF size < Outer(arr.shape)
    THEN LET new_layout == ResizeDim(arr.shape, Len(arr.shape), size)
             t == VecTruncate(arr.vec, size)
         IN  [arr |-> Arr(new_layout, t.keep, arr.cap), dropped |-> t.drop]
    ELSE [arr |-> arr, dropped |-> <<>>]

\* truncate resizing dimension 0 instead of dimension RANK - 1
TruncateDim0(arr, size) ==
    IF size < Outer(arr.shape)
    THEN LET new_layout == ResizeDim(arr.shape, 1, size)
             t == VecTruncate(arr.vec, LayoutLen(new_layout))
         IN  [arr |-> Arr(new_layout, t.keep, arr.cap), dropped |-> t.drop]
    ELSE [arr |-> arr, dropped |-> <<>>]

\* GridArray::truncate: the array afterwards and the elements dropped
Truncate(arr, size) ==
    IF size < Outer(arr.shape)
    THEN LET new_layout == ResizeDim(arr.shape, Len(arr.shape), size)
             t == VecTruncate(arr.vec, LayoutLen(new_layout))
         IN  [arr |-> Arr(new_layout, t.keep, arr.cap), dropped |-> t.drop]
    ELSE [arr |-> arr, dropped |-> <<>>]

truncate(x, size) ==
    /\ g[x].live
    /\ LET t == Truncate(g[x], size)
       IN  MutateArg("truncate", <<size>>, [g EXCEPT ![x] = t.arr], "ok", t.dropped)

\* ------------------------------------------------------------------ formats
Formats == {"Dense", "General", "Flat", "Strided"}

\* Format::IS_UNIFORM
IsUniform(fmt) == fmt \in {"Dense", "Flat"}

\* the format of a span of rank r: a span of rank 0 or 1 has no outer stride
\* to store, so General collapses to Dense and Strided to Flat
FormatAt(r, fmt) ==
    IF r > 1 THEN fmt
    ELSE IF fmt \in {"Dense", "General"} THEN "Dense" ELSE "Flat"

\* the i-th (0-based) outer slice of a span with the given shape whose elements
\* are listed in column-major index order
OuterSlice(shape, elems, i) ==
    LET n == Product(Inner(shape))
    IN  SubSeq(elems, i * n + 1, (i + 1) * n)

\* extend_from_span (the free function): the elements cloned, in order
RECURSIVE ExtendFromSpanRec(_, _, _)
RECURSIVE ExtendOuterIter(_, _, _, _)
ExtendFromSpanRec(shape, elems, fmt) ==
    IF IsUniform(fmt) THEN elems
    ELSE ExtendOuterIter(shape, elems, fmt, 0)
\* the outer slices visited from the last to the first
RECURSIVE ExtendOuterIterRev(_, _, _, _)
ExtendOuterIterRev(shape, elems, fmt, i) ==
    IF i >= Outer(shape) THEN <<>>
    ELSE ExtendOuterIterRev(shape, elems, fmt, i + 1)
         \o ExtendFromSpanRec(Inner(shape), OuterSlice(shape, elems, i),
                              FormatAt(Len(shape) - 1, fmt))

ExtendOuterIter(shape, elems, fmt, i) ==
    IF i >= Outer(shape) THEN <<>>
    ELSE ExtendFromSpanRec(Inner(shape), OuterSlice(shape, elems, i),
                           FormatAt(Len(shape) - 1, fmt))
         \o ExtendOuterIter(shape, elems, fmt, i + 1)

\* GridArray::extend_from_span, other being a span over the whole of array y.
\* The format taken and the elements cloned (the i-th new object is a clone of
\* the i-th of them) are recorded as the operation's argument.
extend_from_span(x, y, fmt) ==
    /\ x # y /\ g[x].live /\ g[y].live /\ Rank(x) = Rank(y)
    /\ fmt = FormatAt(Rank(y), fmt)
    /\ LET ns == NewShape(g[x], g[y])
           src == ExtendFromSpanRec(g[y].shape, g[y].vec, fmt)
       IN  IF ~ns.ok
           THEN MutateArg("extend_from_span", <<fmt, <<>>>>, g, "panic", <<>>)
           ELSE \E c \in ReserveCaps(Len(g[x].vec), g[x].cap, Len(g[y].vec)) :
                  MutateArg("extend_from_span", <<fmt, src>>,
                            [g EXCEPT ![x] = Arr(ns.shape, g[x].vec \o Clones(src), c)],
                            "ok", <<>>)

\* Extend<T> for GridArray<T, Const<1>>: n items pushed
extend(x, n) ==
    /\ g[x].live /\ Rank(x) = 1
    /\ \E c \in ReserveCaps(Len(g[x].vec), g[x].cap, n) :
         LET vec == g[x].vec \o Fresh(n)
         IN  Mutate("extend", [g EXCEPT ![x] = Arr(<<Len(vec)>>, vec, c)],
                    "ok", <<>>)

\* GridArray::reserve
reserve(x, additional) ==
    /\ g[x].live
    /\ \E c \in ReserveCaps(Len(g[x].vec), g[x].cap, additional) :
         Mutate("reserve", [g EXCEPT ![x].cap = c], "ok", <<>>)

\* GridArray::reserve_exact
reserve_exact(x, additional) ==
    /\ g[x].live
    /\ LET c == ReserveExactCap(Len(g[x].vec), g[x].cap, additional)
       IN  /\ c <= MaxCap
           /\ Mutate("reserve_exact", [g EXCEPT ![x].cap = c], "ok", <<>>)

\* GridArray::try_reserve that fails the way reserve does, by a panic
try_reserve_or_panic(x, additional) ==
    /\ g[x].live
    /\ \/ \E c \in ReserveCaps(Len(g[x].vec), g[x].cap, additional) :
            Mutate("try_reserve", [g EXCEPT ![x].cap = c], "ok", <<>>)
       \/ /\ g[x].cap - Len(g[x].vec) < additional
          /\ Mutate("try_reserve", g, "panic", <<>>)

\* GridArray::try_reserve: Ok with the capacity grown as by reserve, or Err
\* (capacity overflow, allocator failure) with the vector untouched
try_reserve(x, additional) ==
    /\ g[x].live
    /\ \/ \E c \in ReserveCaps(Len(g[x].vec), g[x].cap, additional) :
            Mutate("try_reserve", [g EXCEPT ![x].cap = c], "ok", <<>>)
       \/ /\ g[x].cap - Len(g[x].vec) < additional
          /\ Mutate("try_reserve", g, "err", <<>>)

\* GridArray::try_reserve_exact
try_reserve_exact(x, additional) ==
    /\ g[x].live
    /\ LET c == ReserveExactCap(Len(g[x].vec), g[x].cap, additional)
       IN  \/ /\ c <= MaxCap
              /\ Mutate("try_reserve_exact", [g EXCEPT ![x].cap = c], "ok", <<>>)
           \/ /\ g[x].cap - Len(g[x].vec) < additional
              /\ Mutate("try_reserve_exact", g, "err", <<>>)

\* GridArray::shrink_to
shrink_to(x, min_capacity) ==
    /\ g[x].live
    /\ Mutate("shrink_to", [g EXCEPT ![x].cap = ShrinkToCap(Len(g[x].vec), g[x].cap, min_capacity)],
              "ok", <<>>)

\* GridArray::shrink_to_fit
shrink_to_fit(x) ==
    /\ g[x].live
    /\ Mutate("shrink_to_fit", [g EXCEPT ![x].cap = ShrinkToCap(Len(g[x].vec), g[x].cap, 0)],
              "ok", <<>>)

\* DenseLayout::reshape(shape): valid only if the new shape has the same
\* element count; otherwise it fails (a panic).
Reshape(layout, shape) ==
    [ok |-> LayoutLen(shape) = LayoutLen(layout), shape |-> shape]

\* into_shape installing the new shape without asking the layout to reshape
into_shape_unchecked(x, shape) ==
    /\ g[x].live
    /\ StepWith("into_shape", shape,
                [g EXCEPT ![x] = FromParts(g[x].vec, g[x].cap, shape)], raw,
                "ok", <<>>)

\* GridArray::into_shape: self is taken by value and the result is bound to the
\* same variable; if reshape panics, the vector taken out of self is dropped
\* while unwinding.
into_shape(x, shape) ==
    /\ g[x].live
    /\ LET r == Reshape(g[x].shape, shape)
       IN  IF r.ok
           THEN StepWith("into_shape", shape,
                         [g EXCEPT ![x] = FromParts(g[x].vec, g[x].cap, r.shape)],
                         raw, "ok", <<>>)
           ELSE StepWith("into_shape", shape, [g EXCEPT ![x] = Moved], raw,
                         "panic", g[x].vec)

\* into_raw_parts returning the vector's length in place of its capacity
IntoRawPartsLen(arr) ==
    [some |-> TRUE, ptr |-> [slots |-> arr.vec, cap |-> arr.cap],
     shape |-> arr.shape, capacity |-> Len(arr.vec), orig |-> arr]

\* GridArray::into_raw_parts: (vec.as_mut_ptr(), layout.shape(), vec.capacity())
\* of a vector wrapped in ManuallyDrop.  The pointer is modelled by the
\* allocation it points to: its initialized slots and its size.  orig is a
\* history field: the array that was decomposed.
IntoRawParts(arr) ==
    [some |-> TRUE, ptr |-> [slots |-> arr.vec, cap |-> arr.cap],
     shape |-> arr.shape, capacity |-> arr.cap, orig |-> arr]

into_raw_parts(x) ==
    /\ g[x].live /\ ~raw.some
    /\ Step("into_raw_parts", [g EXCEPT ![x] = Moved], IntoRawParts(g[x]),
            "ok", <<>>)

\* GridArray::from_raw_parts(ptr, shape, capacity):
\* Vec::from_raw_parts(ptr, layout.len(), capacity)
FromRawParts(ptr, shape, capacity) ==
    FromParts(Take(ptr.slots, LayoutLen(shape)), capacity, shape)

\* from_raw_parts called with exactly the parts into_raw_parts returned
from_raw_parts(x) ==
    /\ raw.some /\ ~g[x].live
    /\ Step("from_raw_parts",
            [g EXCEPT ![x] = FromRawParts(raw.ptr, raw.shape, raw.capacity)],
            RawNone, "ok", <<>>)

\* no array of values built yet
FnIdle ==
    [op |-> "init", f |-> "fresh", shape |-> <<>>, size |-> 0,
     arr |-> Moved, calls |-> <<>>, dropped |-> <<>>]

\* no constructor running
FillIdle ==
    [pc |-> "init", op |-> "none", shape |-> <<>>, total |-> 0, failat |-> 0,
     cap |-> 0, len |-> 0, slots |-> <<>>, calls |-> 0, pending |-> 0,
     dropped |-> <<>>, out |-> "none", arr |-> Moved]

\* nothing to encode yet
WireIdle ==
    [pc |-> "init", S |-> <<>>, dims |-> <<>>, vec |-> <<>>,
     enc |-> [kind |-> "val", val |-> 0, items |-> <<>>],
     res |-> [out |-> "panic", dims |-> <<>>, vec |-> <<>>,
              what |-> "", found |-> <<>>, expect |-> <<>>]]

\* ------------------------------------------------------------ specification
Init ==
    /\ g = [x \in Names |-> Moved]
    /\ raw = RawNone
    /\ last = [op |-> "init", arg |-> <<>>, out |-> "ok", dropped |-> <<>>,
               after |-> "other",
               was |-> [a |-> <<>>, b |-> <<>>, raw |-> <<>>]]
    /\ fnrun = FnIdle
    /\ wire = WireIdle
    /\ ctor = FillIdle

\* the constructors
Built(x) ==
    \/ \E r \in Ranks : new(x, r)
    \/ \E r \in Ranks, c \in Caps : with_capacity(x, r, c)
    \/ \E shape \in AllShapes : from_elem(x, shape)
    \/ \E shape \in AllShapes : from_fn(x, shape)
    \/ \E c \in Caps : \E n \in 0..c : from_vec(x, n, c)

\* the operations on one array
Owned(x) ==
    \/ clear(x)
    \/ \E n \in Sizes : extend(x, n)
    \/ \E size \in Sizes : truncate(x, size)
    \/ \E n \in Sizes : reserve(x, n)
    \/ \E n \in Sizes : reserve_exact(x, n)
    \/ \E n \in Sizes : try_reserve(x, n)
    \/ \E n \in Sizes : try_reserve_exact(x, n)
    \/ \E n \in Sizes : shrink_to(x, n)
    \/ shrink_to_fit(x)
    \/ drop(x)

\* Array a is the receiver (self) of every operation; array b is built by the
\* constructors and is the argument (other) of append and extend_from_span.
Next ==
    \/ Built("a")
    \/ Built("b")
    \/ Owned("a")
    \/ drop("b")
    \/ append("a", "b")
    \/ \E fmt \in Formats : extend_from_span("a", "b", fmt)

Spec == Init /\ [][Next]_vars

\* One array, built by any constructor and brought to any length and capacity,
\* and the conversions that take it by value.
NextOne ==
    \/ Built("a")
    \/ \E size \in Sizes : truncate("a", size)
    \/ \E n \in Sizes : reserve("a", n)
    \/ shrink_to_fit("a")
    \/ drop("a")
    \/ \E shape \in AllShapes : into_shape("a", shape)
    \/ into_raw_parts("a")
    \/ from_raw_parts("a")

SpecOne == Init /\ [][NextOne]_vars

\* --------------------------------------------- from_fn returning values
\* The rank is instantiated with Const<1>, Const<2> and Const<3>.
FnRanks == {1, 2, 3}
FnSizes == 0..MaxFnDim
FnShapes == UNION {[1..r -> FnSizes] : r \in FnRanks}
Fns == {"lin3", "digits", "count"}

\* let a = GridArray::from_fn(shape, f)
fn_from_fn(shape, f) ==
    /\ fnrun.op = "init"
    /\ LET b == FromFn(shape, f)
       IN  fnrun' = [op |-> "from_fn", f |-> f, shape |-> shape, size |-> 0,
                     arr |-> b.arr, calls |-> b.calls, dropped |-> <<>>]
    /\ UNCHANGED <<g, raw, last, wire, ctor>>

\* a.truncate(size), on the array as from_fn returned it
fn_truncate(size) ==
    /\ fnrun.op = "from_fn"
    /\ LET t == Truncate(fnrun.arr, size)
       IN  fnrun' = [fnrun EXCEPT !.op = "truncate", !.size = size,
                                  !.arr = t.arr, !.dropped = t.dropped]
    /\ UNCHANGED <<g, raw, last, wire, ctor>>

NextFn ==
    \/ \E shape \in FnShapes, f \in Fns : fn_from_fn(shape, f)
    \/ \E size \in FnSizes : fn_truncate(size)

SpecFn == Init /\ [][NextFn]_vars

\* ------------------------------------------- from_fn and from_elem, unwound
\* One run of a filling constructor, one statement at a time, with a
\* generator (f for from_fn, elem.clone() for from_elem) that panics on its
\* failat-th call (0: never).  The k-th object produced is numbered k; a slot
\* holding 0 is uninitialized memory.
FillOps == {"from_fn", "from_elem"}

\* ptr.add(p).write(v): slot p (0-based) of the storage is initialized
WriteSlot(slots, p, v) ==
    [j \in 1..Max(Len(slots), p + 1) |->
        IF j = p + 1 THEN v ELSE IF j <= Len(slots) THEN slots[j] ELSE 0]

\* Drop for Vec: the first len slots are destructed, in order
VecDrop(slots, len) ==
    [j \in 1..len |-> IF j <= Len(slots) THEN slots[j] ELSE 0]

\* the constructor setting the length to the capacity before filling
fill_begin_len_first(op, shape, failat) ==
    /\ ctor.pc = "init"
    /\ LET len == ShapeLen(shape)
           total == IF op = "from_fn" THEN Len(FromFn(shape, "count").calls) ELSE len
       IN  ctor' = [FillIdle EXCEPT
                       !.pc = IF total = 0 THEN "done" ELSE "call",
                       !.op = op, !.shape = shape, !.total = total,
                       !.failat = failat, !.cap = len, !.len = len,
                       !.out = "running"]
    /\ UNCHANGED <<g, raw, last, fnrun, wire>>

\* from_fn / from_elem up to the loop: len is the product of the sizes and
\* vec = Vec::with_capacity(len), of length 0.  total is the number of times
\* the loops will call the generator.
fill_begin(op, shape, failat) ==
    /\ ctor.pc = "init"
    /\ LET len == ShapeLen(shape)
           total == IF op = "from_fn" THEN Len(FromFn(shape, "count").calls) ELSE len
       IN  ctor' = [FillIdle EXCEPT
                       !.pc = IF total = 0 THEN "done" ELSE "call",
                       !.op = op, !.shape = shape, !.total = total,
                       !.failat = failat, !.cap = len, !.len = 0,
                       !.out = "running"]
    /\ UNCHANGED <<g, raw, last, fnrun, wire>>

\* f(index) / elem.clone(): from_fn first asserts vec.len() < vec.capacity().
\* A panic unwinds through the constructor, whose local vec is dropped; no
\* array is returned.
fill_call ==
    /\ ctor.pc = "call"
    /\ IF (ctor.op = "from_fn" /\ ~(ctor.len < ctor.cap)) \/ ctor.calls + 1 = ctor.failat
       THEN ctor' = [ctor EXCEPT
                        !.pc = "unwound", !.out = "panic",
                        !.calls = IF ctor.op = "from_fn" /\ ~(ctor.len < ctor.cap)
                                  THEN @ ELSE @ + 1,
                        !.dropped = VecDrop(ctor.slots, ctor.len)]
       ELSE ctor' = [ctor EXCEPT !.pc = "write", !.calls = @ + 1,
                                 !.pending = ctor.calls + 1]
    /\ UNCHANGED <<g, raw, last, fnrun, wire>>

\* vec.as_mut_ptr().add(vec.len()).write(..) in from_fn,
\* vec.as_mut_ptr().add(i).write(..) in from_elem
fill_write ==
    /\ ctor.pc = "write"
    /\ LET p == IF ctor.op = "from_fn" THEN ctor.len ELSE ctor.calls - 1
       IN  ctor' = [ctor EXCEPT !.pc = "set_len", !.pending = 0,
                                !.slots = WriteSlot(@, p, ctor.pending)]
    /\ UNCHANGED <<g, raw, last, fnrun, wire>>

\* vec.set_len(vec.len() + 1) in from_fn, vec.set_len(i + 1) in from_elem;
\* then the next iteration, if any
fill_set_len ==
    /\ ctor.pc = "set_len"
    /\ ctor' = [ctor EXCEPT
                   !.pc = IF ctor.calls < ctor.total THEN "call" ELSE "done",
                   !.len = IF ctor.op = "from_fn" THEN @ + 1 ELSE ctor.calls]
    /\ UNCHANGED <<g, raw, last, fnrun, wire>>

\* Self::from_parts(vec, DenseLayout::new(shape)) is returned
fill_return ==
    /\ ctor.pc = "done"
    /\ ctor' = [ctor EXCEPT
                   !.pc = "returned", !.out = "ok",
                   !.arr = FromParts(VecDrop(ctor.slots, ctor.len), ctor.cap, ctor.shape)]
    /\ UNCHANGED <<g, raw, last, fnrun, wire>>

NextFill ==
    \/ ctor.pc = "init" /\ \E op \in FillOps, shape \in FnShapes :
          \E failat \in 0..ShapeLen(shape) : fill_begin(op, shape, failat)
    \/ fill_call
    \/ fill_write
    \/ fill_set_len
    \/ fill_return

SpecFill == Init /\ [][NextFill]_vars

\* ------------------------------------------------ nested-sequence encoding
\* The encoding belongs to the Tensor interface, whose elements are stored in
\* row-major order: dimension 1 of a shape (dims[0]) is the outer dimension
\* and varies slowest.  A shape type S gives each dimension a type: Dyn (the
\* size is kept at run time, Dim::SIZE is None) or Const<n> (SIZE is Some(n)),
\* written n.
Dyn == -1

SerRanks == {0, 1, 2, 3}
SerSizes == 0..MaxSerDim
DimTypes == {Dyn} \cup SerSizes
ShapeTypes == UNION {[1..r -> DimTypes] : r \in SerRanks}

\* the shapes a value of shape type S can have
ShapesOf(S) ==
    {dims \in [1..Len(S) -> SerSizes] : \A d \in DOMAIN S : S[d] # Dyn => dims[d] = S[d]}

\* S::default().dims(): a dynamic size is 0, a constant size is itself
DefaultDims(S) == [d \in DOMAIN S |-> IF S[d] = Dyn THEN 0 ELSE S[d]]

\* the element values of the arrays encoded: all different, or all equal
Fills == {"iota", "zero"}
ElemAt(fill, k) == IF fill = "iota" THEN k ELSE 0

\* what a serializer is handed: a scalar or a sequence
ValNode(v) == [kind |-> "val", val |-> v, items |-> <<>>]
SeqNode(items) == [kind |-> "seq", val |-> 0, items |-> items]

\* the results of deserialize: Ok(tensor), Err(message), or a panic
Ok(dims, vec) ==
    [out |-> "ok", dims |-> dims, vec |-> vec,
     what |-> "", found |-> <<>>, expect |-> <<>>]
Err(what, found, expect) ==
    [out |-> "err", dims |-> <<>>, vec |-> <<>>,
     what |-> what, found |-> found, expect |-> expect]
Panicked ==
    [out |-> "panic", dims |-> <<>>, vec |-> <<>>,
     what |-> "", found |-> <<>>, expect |-> <<>>]

\* outer_expr(): the i-th (0-based) subarray along dimension 0
OuterExpr(dims, vec, i) ==
    LET n == Product(Tail(dims))
    IN  [dims |-> Tail(dims), vec |-> SubSeq(vec, i * n + 1, (i + 1) * n)]

\* Serialize for Slice: rank 0 is the element itself, any other rank a
\* sequence of dim(0) items, one per subarray of outer_expr()
RECURSIVE Serialize(_, _)
Serialize(dims, vec) ==
    IF Len(dims) = 0 THEN ValNode(vec[1])
    ELSE SeqNode([i \in 1..dims[1] |->
                 LET x == OuterExpr(dims, vec, i - 1)
                 IN  Serialize(x.dims, x.vec)])

\* Tensor::from(vec).into_shape(S::from_dims(dims)): panics unless the shape
\* holds exactly the elements of the vector
TensorIntoShape(vec, dims) ==
    IF Product(dims) = Len(vec) THEN Ok(dims, vec) ELSE Panicked

\* the outer size left at its default
SetOuterDimKeep(S, dims, size) == [ok |-> TRUE, dims |-> dims]

\* visit_seq, after the loop: the number of items becomes the size of a
\* dynamic dimension 0 and must equal the size of a constant one
SetOuterDim(S, dims, size) ==
    IF S[1] = Dyn
    THEN [ok |-> TRUE, dims |-> [dims EXCEPT ![1] = size]]
    ELSE [ok |-> size = dims[1], dims |-> dims]

\* the sibling check comparing the number of dimensions only
DimsDifferInRank(found, expect) == Len(found) # Len(expect)

\* visit_seq: found != expect, the dimensions of a later item against those
\* of the first
DimsDiffer(found, expect) == found # expect

RECURSIVE Deserialize(_, _)
RECURSIVE VisitLoop(_, _, _, _)

\* visit_seq, the while-let loops: items[i..] are still to be read and acc
\* holds vec, dims and size
VisitLoop(S, items, i, acc) ==
    IF i > Len(items) THEN [out |-> "ok", acc |-> acc]
    ELSE IF Len(S) = 1
    THEN IF items[i].kind # "val"
         THEN Err("invalid type", <<>>, <<>>)
         ELSE VisitLoop(S, items, i + 1,
                        [acc EXCEPT !.vec = Append(@, items[i].val),
                                    !.size = @ + 1])
    ELSE LET value == Deserialize(Tail(S), items[i])
         IN  IF value.out # "ok" THEN value
             ELSE IF acc.size = 0
             THEN VisitLoop(S, items, i + 1,
                            [vec |-> acc.vec \o value.vec,
                             dims |-> <<acc.dims[1]>> \o value.dims,
                             size |-> 1])
             ELSE IF DimsDiffer(value.dims, Tail(acc.dims))
             THEN Err("invalid dimensions", value.dims, Tail(acc.dims))
             ELSE VisitLoop(S, items, i + 1,
                            [acc EXCEPT !.vec = @ \o value.vec,
                                        !.size = @ + 1])

\* TensorVisitor::visit_seq
VisitSeq(S, items) ==
    LET loop == VisitLoop(S, items, 1,
                          [vec |-> <<>>, dims |-> DefaultDims(S), size |-> 0])
    IN  IF loop.out # "ok" THEN loop
        ELSE LET o == SetOuterDim(S, loop.acc.dims, loop.acc.size)
             IN  IF ~o.ok
                 THEN Err("invalid dimension", <<loop.acc.size>>, <<loop.acc.dims[1]>>)
                 ELSE TensorIntoShape(loop.acc.vec, o.dims)

\* Deserialize for Tensor<T, S>
Deserialize(S, node) ==
    IF Len(S) > 0
    THEN IF node.kind = "seq" THEN VisitSeq(S, node.items)
         ELSE Err("invalid type", <<>>, <<>>)
    ELSE IF node.kind = "val" THEN TensorIntoShape(<<node.val>>, DefaultDims(S))
         ELSE Err("invalid type", <<>>, <<>>)

\* a tensor of shape type S and shape dims is built
ser_tensor(S, dims, fill) ==
    /\ wire.pc = "init"
    /\ wire' = [pc |-> "tensor", S |-> S, dims |-> dims,
                vec |-> [k \in 1..Product(dims) |-> ElemAt(fill, k)],
                enc |-> ValNode(0), res |-> Panicked]
    /\ UNCHANGED <<g, raw, last, fnrun, ctor>>

\* tensor.serialize(serializer)
serialize ==
    /\ wire.pc = "tensor"
    /\ wire' = [wire EXCEPT !.pc = "encoded", !.enc = Serialize(wire.dims, wire.vec)]
    /\ UNCHANGED <<g, raw, last, fnrun, ctor>>

\* Tensor::<T, S>::deserialize(deserializer)
deserialize ==
    /\ wire.pc = "encoded"
    /\ wire' = [wire EXCEPT !.pc = "decoded", !.res = Deserialize(wire.S, wire.enc)]
    /\ UNCHANGED <<g, raw, last, fnrun, ctor>>

\* The nested sequences a deserializer may be handed that no array encodes:
\* the inner sequences need not agree in length.  Row(n) is a sequence of n
\* elements; a rank-2 input is a sequence of up to MaxItems rows; a rank-3
\* input is a pair of sibling rank-2 inputs.
Row(n) == SeqNode([j \in 1..n |-> ValNode(j)])
Rows == {Row(n) : n \in SerSizes}
Nodes2 == {SeqNode(items) : items \in UNION {[1..k -> Rows] : k \in 0..MaxItems}}
Nodes3 == {SeqNode(<<x, y>>) : x \in Nodes2, y \in Nodes2}

\* the shape types the inputs are decoded as: any type of rank 2, and the
\* dynamic type of rank 3
RecvTypes2 == [1..2 -> DimTypes]
RecvTypes3 == {<<Dyn, Dyn, Dyn>>}

\* a deserializer holding node is about to be decoded as Tensor<T, S>
receive(S, node) ==
    /\ wire.pc = "init"
    /\ wire' = [pc |-> "received", S |-> S, dims |-> <<>>, vec |-> <<>>,
                enc |-> node, res |-> Panicked]
    /\ UNCHANGED <<g, raw, last, fnrun, ctor>>

\* Tensor::<T, S>::deserialize(deserializer), on a received input
deserialize_received ==
    /\ wire.pc = "received"
    /\ wire' = [wire EXCEPT !.pc = "parsed", !.res = Deserialize(wire.S, wire.enc)]
    /\ UNCHANGED <<g, raw, last, fnrun, ctor>>

NextSerde ==
    \/ wire.pc = "init" /\ \E S \in ShapeTypes, fill \in Fills :
          \E dims \in ShapesOf(S) : ser_tensor(S, dims, fill)
    \/ serialize
    \/ deserialize
    \/ wire.pc = "init" /\ \E S \in RecvTypes2, node \in Nodes2 : receive(S, node)
    \/ wire.pc = "init" /\ \E S \in RecvTypes3, node \in Nodes3 : receive(S, node)
    \/ deserialize_received

SpecSerde == Init /\ [][NextSerde]_vars

\* ===================================================================== claims
IsAppend == last'.op = "append"
Self == g["a"]
Arg == g["b"]

\* C1: at every operation boundary of the owned-array operations, each array
\* holds exactly product(shape) elements, and no more than its capacity.
C1_LenIsProductWithinCapacity ==
    \A x \in Names :
        g[x].live => /\ Len(g[x].vec) = Product(g[x].shape)
                     /\ Len(g[x].vec) <= g[x].cap

\* a rank-2 array with elements and spare capacity, just truncated
C1_Witness ==
    /\ last.op = "truncate"
    /\ Rank("a") = 2 /\ Len(g["a"].vec) = 2 /\ g["a"].cap = 3
    /\ Len(last.dropped) = 1

\* C2 as stated: whenever the non-outer sizes of a and b agree, a.append(b)
\* succeeds with outer size outer(a) + outer(b), the non-outer sizes unchanged
\* and the elements of a followed by those of b.
C2_AsStated ==
    [][(IsAppend /\ Inner(Self.shape) = Inner(Arg.shape)) =>
        /\ last'.out = "ok"
        /\ Outer(g'["a"].shape) = Outer(Self.shape) + Outer(Arg.shape)
        /\ Inner(g'["a"].shape) = Inner(Self.shape)
        /\ last'.was.a = Self.vec \o Arg.vec]_vars

\* C2 amended: the outer size is outer(a) + outer(b) when a holds elements, and
\* outer(b) when a holds none (a's own outer size is then discarded); in both
\* cases the non-outer sizes are unchanged and the elements are those of a
\* followed by those of b.
C2_AppendAlongOuter ==
    [][(IsAppend /\ Inner(Self.shape) = Inner(Arg.shape)) =>
        /\ last'.out = "ok"
        /\ Outer(g'["a"].shape) =
               (IF Len(Self.vec) = 0 THEN 0 ELSE Outer(Self.shape)) + Outer(Arg.shape)
        /\ Inner(g'["a"].shape) = Inner(Self.shape)
        /\ last'.was.a = Self.vec \o Arg.vec]_vars

\* two non-empty rank-2 arrays appended
C2_Witness ==
    /\ last.op = "append" /\ last.out = "ok"
    /\ g["a"].shape = <<1, 3>> /\ last.was.a = <<1, 2, 3>>
    /\ g["b"].cap > 0

\* C3: when self holds elements and a non-outer size differs, append panics,
\* every time, and no shape changes.
C3_MismatchPanics ==
    [][(IsAppend /\ Len(Self.vec) # 0 /\ Inner(Self.shape) # Inner(Arg.shape)) =>
        /\ last'.out = "panic"
        /\ g'["a"].shape = Self.shape
        /\ g'["b"].shape = Arg.shape]_vars

\* append has panicked on a non-empty other
C3_Witness ==
    /\ last.op = "append" /\ last.out = "panic"
    /\ Len(g["b"].vec) > 0

\* C4: after a successful a.append(b), b holds nothing and has the default
\* layout, a holds every object a or b held, each once, and nothing was dropped.
C4_AppendMovesOnce ==
    [][(IsAppend /\ last'.out = "ok") =>
        /\ g'["b"].vec = <<>>
        /\ last'.was.b = <<>>
        /\ g'["b"].shape = Zeros(Len(Arg.shape))
        /\ \A e \in Range(Self.vec) \cup Range(Arg.vec) : Count(last'.was.a, e) = 1
        /\ Len(last'.was.a) = Len(Self.vec) + Len(Arg.vec)
        /\ last'.dropped = <<>>]_vars

\* b gave two objects to a non-empty a
C4_Witness ==
    /\ last.op = "append" /\ last.out = "ok"
    /\ Len(g["a"].vec) = 3 /\ g["b"].vec = <<>> /\ g["b"].cap >= 2
    /\ g["a"].shape = <<3>>

\* C5: truncate(n) on an array of outer size m > n leaves outer size n and the
\* other sizes as they were, keeps the first n outer slices in order, and
\* drops the objects of the last m - n outer slices, each once.
C5_TruncateDropsTail ==
    [][last'.op = "truncate" => \A n \in Sizes :
        (n < Outer(Self.shape) /\ truncate("a", n)) =>
            LET m == Outer(Self.shape)
            IN  /\ g'["a"].shape = [Self.shape EXCEPT ![Len(Self.shape)] = n]
                /\ \A i \in 0..(n - 1) :
                     OuterSlice(g'["a"].shape, last'.was.a, i)
                         = OuterSlice(Self.shape, Self.vec, i)
                /\ Len(last'.was.a) = n * Product(Inner(Self.shape))
                /\ \A i \in n..(m - 1) :
                     \A e \in Range(OuterSlice(Self.shape, Self.vec, i)) :
                         Count(last'.dropped, e) = 1 /\ Count(last'.was.a, e) = 0
                /\ Len(last'.dropped) = (m - n) * Product(Inner(Self.shape))]_vars

\* a 1x3 array truncated to outer size 1
C5_Witness ==
    /\ last.op = "truncate" /\ last.out = "ok"
    /\ g["a"].shape = <<1, 1>> /\ last.dropped = <<2, 3>>

\* the 2x3 array of the example: built by from_fn from shape [2,3] with
\* f(i) = i[0]*3 + i[1], then truncated to outer size 1
C6_Example ==
    /\ fnrun.op = "truncate" /\ fnrun.f = "lin3"
    /\ fnrun.shape = <<2, 3>> /\ fnrun.size = 1

\* C6 as stated: the truncated array is a 1x3 array equal to
\* from_fn([1,3], f)
C6_AsStated ==
    C6_Example =>
        /\ fnrun.arr.shape = <<1, 3>>
        /\ fnrun.arr.vec = FromFn(<<1, 3>>, "lin3").arr.vec

\* C6: the 2x3 array built by from_fn with f(i) = i[0]*3 + i[1] and truncated
\* to outer size 1 is a 2x1 array (the outer dimension is the last one) equal,
\* in shape and element sequence, to from_fn([2,1], f): its elements are 0, 3.
C6_TruncatedEqualsFresh ==
    C6_Example =>
        /\ fnrun.arr.shape = <<2, 1>>
        /\ fnrun.arr.shape = FromFn(<<2, 1>>, "lin3").arr.shape
        /\ fnrun.arr.vec = FromFn(<<2, 1>>, "lin3").arr.vec
        /\ fnrun.arr.vec = <<0, 3>>
        /\ fnrun.dropped = <<1, 4, 2, 5>>

\* the example array after truncate(1)
C6_Witness ==
    /\ C6_Example
    /\ fnrun.arr.vec = <<0, 3>> /\ fnrun.arr.cap = 6

\* the index tuple of the k-th (1-based) position in column-major order
IndexAt(shape, k) ==
    [d \in DOMAIN shape |->
        ((k - 1) \div Product(SubSeq(shape, 1, d - 1))) % shape[d]]

InShape(shape, index) == \A d \in DOMAIN shape : index[d] \in 0..(shape[d] - 1)

IndexTuples(shape) ==
    {index \in [DOMAIN shape -> 0..MaxFnDim] : InShape(shape, index)}

\* C7: from_fn(shape, f) calls f product(shape) times, only with index tuples
\* inside the shape and once with each of them, in column-major order
\* (dimension 0 fastest, the last dimension slowest), and the k-th element
\* stored is what the k-th call returned.
C7_FromFnColumnMajor ==
    fnrun.op = "from_fn" =>
        /\ Len(fnrun.calls) = Product(fnrun.shape)
        /\ \A k \in DOMAIN fnrun.calls : InShape(fnrun.shape, fnrun.calls[k])
        /\ \A index \in IndexTuples(fnrun.shape) : Count(fnrun.calls, index) = 1
        /\ \A k \in DOMAIN fnrun.calls : fnrun.calls[k] = IndexAt(fnrun.shape, k)
        /\ Len(fnrun.arr.vec) = Len(fnrun.calls)
        /\ \A k \in DOMAIN fnrun.calls :
              fnrun.arr.vec[k] = Apply(fnrun.f, fnrun.calls[k], k)
        /\ fnrun.arr.shape = fnrun.shape

\* a 2x1x2 array filled by an f that counts its calls
C7_Witness ==
    /\ fnrun.op = "from_fn" /\ fnrun.f = "count" /\ fnrun.shape = <<2, 1, 2>>
    /\ fnrun.calls = <<<<0, 0, 0>>, <<1, 0, 0>>, <<0, 0, 1>>, <<1, 0, 1>>>>
    /\ fnrun.arr.vec = <<1, 2, 3, 4>>

\* C8: into_shape(s) succeeds exactly when product(s) is the number of elements
\* held; it then leaves shape s over the same objects in the same order and
\* with the same capacity, nothing dropped; for any other s it panics.
C8_IntoShapeKeepsLength ==
    [][last'.op = "into_shape" =>
        IF Product(last'.arg) = Len(Self.vec)
        THEN /\ last'.out = "ok"
             /\ g'["a"].live
             /\ g'["a"].shape = last'.arg
             /\ Len(g'["a"].vec) = Len(Self.vec)
             /\ g'["a"].cap = Self.cap
             /\ last'.was.a = Self.vec
             /\ last'.dropped = <<>>
        ELSE /\ last'.out = "panic"
             /\ ~g'["a"].live]_vars

\* a vector of four elements reshaped into a 2x2 array
C8_Witness ==
    /\ last.op = "into_shape" /\ last.out = "ok"
    /\ g["a"].shape = <<2, 2>> /\ last.was.a = <<1, 2, 3, 4>>
    /\ g["a"].cap = 4

\* C9: into_raw_parts hands out the allocation with every object in place,
\* the shape and the capacity, dropping nothing; the parts stay as they are
\* until from_raw_parts, which yields the original shape, objects (in order)
\* and capacity.  Every object alive is owned by exactly one of the array
\* variables and the raw parts throughout.
C9_RawPartsRoundTrip ==
    [][/\ last'.op = "into_raw_parts" =>
            /\ raw'.some /\ ~g'["a"].live
            /\ raw'.shape = Self.shape
            /\ raw'.capacity = Self.cap
            /\ raw'.ptr.cap = Self.cap
            /\ last'.was.raw = Self.vec
            /\ last'.dropped = <<>>
       /\ (raw.some /\ last'.op # "from_raw_parts") =>
            /\ raw'.some
            /\ last'.was.raw = raw.ptr.slots
            /\ raw'.shape = raw.shape /\ raw'.capacity = raw.capacity
            /\ Range(last'.dropped) \cap Range(raw.ptr.slots) = {}
       /\ last'.op = "from_raw_parts" =>
            /\ g'["a"].live /\ ~raw'.some
            /\ g'["a"].shape = raw.orig.shape
            /\ g'["a"].cap = raw.orig.cap
            /\ last'.was.a = raw.orig.vec
            /\ last'.was.a = raw.ptr.slots
            /\ last'.dropped = <<>>
       /\ \A e \in Range(Live(g', raw')) : Count(Live(g', raw'), e) = 1]_vars

\* an array with spare capacity was rebuilt from its raw parts
C9_Witness ==
    /\ last.op = "from_raw_parts"
    /\ g["a"].shape = <<1, 2>> /\ g["a"].cap = 3
    /\ last.was.a = <<1, 2>> /\ last.dropped = <<>>

\* no dimension of size 0 is followed by a dynamic dimension of another size
Recoverable(S, dims) ==
    \A d \in DOMAIN dims, e \in DOMAIN dims :
        (d < e /\ dims[d] = 0 /\ S[e] = Dyn) => dims[e] = 0

\* C10 as stated: decoding the encoding of an array of rank 0 to 3 gives the
\* original shape and elements, whichever dimension has size 0
C10_AsStated ==
    wire.pc = "decoded" =>
        /\ wire.res.out = "ok"
        /\ wire.res.dims = wire.dims
        /\ wire.res.vec = wire.vec

\* C10: decoding the encoding of an array of rank 0 to 3 succeeds and gives
\* the original elements; it gives the original shape exactly when no
\* dimension of size 0 is followed by a dynamic dimension of nonzero size (so
\* for every array without a dimension of size 0 and for a rank-2 array whose
\* second dimension has size 0, but not for a dynamic rank-2 array [0, n],
\* n > 0, which decodes as [0, 0]).
C10_RoundTrip ==
    wire.pc = "decoded" =>
        /\ wire.res.out = "ok"
        /\ wire.res.vec = wire.vec
        /\ (wire.res.dims = wire.dims) <=> Recoverable(wire.S, wire.dims)
        /\ ~Recoverable(wire.S, wire.dims) =>
              \E d \in DOMAIN wire.dims :
                  /\ wire.dims[d] = 0
                  /\ wire.res.dims =
                        [e \in DOMAIN wire.dims |->
                            IF e <= d THEN wire.dims[e]
                            ELSE DefaultDims(wire.S)[e]]

\* a dynamic 2x0 array came back from its encoding (two empty sequences)
C10_Witness ==
    /\ wire.pc = "decoded" /\ wire.S = <<Dyn, Dyn>> /\ wire.dims = <<2, 0>>
    /\ wire.enc = SeqNode(<<SeqNode(<<>>), SeqNode(<<>>)>>)
    /\ wire.res.out = "ok" /\ wire.res.dims = <<2, 0>>

\* the leaves of a nested sequence, in order
RECURSIVE Leaves(_)
Leaves(node) ==
    IF node.kind = "val" THEN <<node.val>>
    ELSE IF node.items = <<>> THEN <<>>
    ELSE Leaves(node.items[1]) \o Leaves(SeqNode(Tail(node.items)))

\* the dimensions of a nested sequence of depth r, and whether at every depth
\* all sibling subsequences have the same dimensions
RECURSIVE NodeShape(_, _)
NodeShape(node, r) ==
    IF r = 0 THEN [ok |-> TRUE, dims |-> <<>>]
    ELSE LET n == Len(node.items)
             cs == [i \in 1..n |-> NodeShape(node.items[i], r - 1)]
         IN  [ok |-> \A i \in 1..n : cs[i].ok /\ cs[i].dims = cs[1].dims,
              dims |-> <<n>> \o (IF n = 0 THEN Zeros(r - 1) ELSE cs[1].dims)]

\* the first sibling, in reading order, that differs from the first item of
\* its sequence: its dimensions (found) and the first item's (expect)
RECURSIVE FirstOffender(_, _)
FirstOffender(node, r) ==
    LET n == Len(node.items)
        cs == [i \in 1..n |-> NodeShape(node.items[i], r - 1)]
        i == CHOOSE k \in 1..n :
                 /\ ~cs[k].ok \/ cs[k].dims # cs[1].dims
                 /\ \A j \in 1..(k - 1) : cs[j].ok /\ cs[j].dims = cs[1].dims
    IN  IF ~cs[i].ok THEN FirstOffender(node.items[i], r - 1)
        ELSE [found |-> cs[i].dims, expect |-> cs[1].dims]

\* C11: decoding nested sequences in which two siblings have different
\* dimensions returns an error value, never an array and never a panic; for a
\* dynamic shape type it is the "invalid dimensions" error reporting the
\* dimensions of the first offending sibling and those expected.  An array is
\* returned only for uniform input and then holds every leaf, in order.
C11_RaggedIsError ==
    wire.pc = "parsed" =>
        LET r == Len(wire.S)
            sh == NodeShape(wire.enc, r)
        IN  /\ ~sh.ok =>
                  /\ wire.res.out = "err"
                  /\ wire.res.vec = <<>> /\ wire.res.dims = <<>>
                  /\ wire.res.found # wire.res.expect
                  /\ (\A d \in 1..r : wire.S[d] = Dyn) =>
                        /\ wire.res.what = "invalid dimensions"
                        /\ wire.res.found = FirstOffender(wire.enc, r).found
                        /\ wire.res.expect = FirstOffender(wire.enc, r).expect
            /\ wire.res.out = "ok" =>
                  /\ sh.ok
                  /\ wire.res.vec = Leaves(wire.enc)
                  /\ Product(wire.res.dims) = Len(wire.res.vec)
                  /\ wire.res.dims[1] = Len(wire.enc.items)
                  /\ (\A d \in 1..r : wire.S[d] = Dyn) => wire.res.dims = sh.dims
            /\ wire.res.out # "panic"

\* three rows of lengths 2, 1 and 0: the error names the second row
C11_Witness ==
    /\ wire.pc = "parsed" /\ wire.S = <<Dyn, Dyn>>
    /\ wire.enc = SeqNode(<<Row(2), Row(1), Row(0)>>)
    /\ wire.res.out = "err" /\ wire.res.what = "invalid dimensions"
    /\ wire.res.found = <<1>> /\ wire.res.expect = <<2>>

\* ---------------------------------------------------------------------------
\* C12. reserve(additional) and reserve_exact(additional) never shrink the
\* capacity: afterwards it is at least what it was and at least length +
\* additional, and shape and elements are as before. shrink_to_fit leaves the
\* capacity equal to the length, and shape and elements as before.
Untouched(x) ==
    /\ g'[x].live /\ g'[x].shape = g[x].shape
    /\ last'.was[x] = g[x].vec /\ Len(g'[x].vec) = Len(g[x].vec)
    /\ last'.dropped = <<>>

\* the step, one of reserve or try_reserve (exact or not) that left shape and
\* elements alone and did not fail, can have been a call with this argument:
\* the capacity it left is one the call can leave
CalledWith(op, additional) ==
    LET len == Len(g["a"].vec)
    IN  IF op \in {"reserve", "try_reserve"}
        THEN g'["a"].cap \in ReserveCaps(len, g["a"].cap, additional)
        ELSE g'["a"].cap = ReserveExactCap(len, g["a"].cap, additional)

C14_ExtendFromSpan ==
    [][(/\ last'.op = "extend_from_span" /\ last'.out = "ok"
        /\ ~IsEmpty("a")) =>
          /\ last'.arg[1] \in Formats
          /\ g'["a"].shape = ResizeDim(g["a"].shape, Rank("a"),
                                       Outer(g["a"].shape) + Outer(g["b"].shape))
          /\ Inner(g["a"].shape) = Inner(g["b"].shape)
          /\ last'.was.a = g["a"].vec \o Fresh(Len(g["b"].vec))
          /\ last'.arg[2] = g["b"].vec
          /\ last'.dropped = <<>>
          /\ g'["b"].shape = g["b"].shape /\ g'["b"].cap = g["b"].cap
          /\ last'.was.b = g["b"].vec]_vars

\* a 1 x 1 array extended by a General span of shape 1 x 2
C14_Witness ==
    /\ last.op = "extend_from_span" /\ last.out = "ok"
    /\ last.arg[1] = "General" /\ Len(last.arg[2]) = 2
    /\ g["a"].shape = <<1, 3>> /\ g["a"].vec = <<1, 2, 3>>
    /\ g["b"].shape = <<1, 2>> /\ g["b"].vec = <<4, 5>>

\* ---------------------------------------------------------------------------
\* C15. During from_fn and from_elem the length is advanced by one only after
\* the slot has been written: it never runs ahead of the initialized slots,
\* equals their number at every iteration of the loop (where the generator
\* is called, and when the loop is left) and never exceeds the capacity, the
\* product of the sizes. If the generator or the clone fails on its k-th
\* call, exactly the k - 1 objects produced so far are destructed, each once,
\* and no array is returned.
Initialized(slots) == Cardinality({j \in DOMAIN slots : slots[j] # 0})

C15_FillPanicSafe ==
    ctor.pc # "init" =>
        /\ ctor.cap = Product(ctor.shape)
        /\ ctor.len <= ctor.cap
        /\ ctor.len <= Initialized(ctor.slots)
        /\ Initialized(ctor.slots) <= ctor.len + 1
        /\ Initialized(ctor.slots) = Len(ctor.slots)
        /\ (ctor.pc \in {"call", "done", "returned", "unwound"}) =>
               ctor.len = Initialized(ctor.slots)
        /\ (ctor.out = "panic") =>
               /\ ctor.failat = ctor.calls /\ ctor.calls >= 1
               /\ ctor.dropped = [j \in 1..(ctor.calls - 1) |-> j]
               /\ ~ctor.arr.live
        /\ (ctor.out = "ok") =>
               /\ ctor.failat \notin 1..ctor.total
               /\ ctor.arr.vec = [j \in 1..ctor.cap |-> j]
               /\ ctor.dropped = <<>>

\* from_fn over 2 x 2 whose function failed on its third call
C15_Witness ==
    /\ ctor.pc = "unwound" /\ ctor.op = "from_fn" /\ ctor.shape = <<2, 2>>
    /\ ctor.failat = 3 /\ ctor.calls = 3 /\ ctor.dropped = <<1, 2>>
    /\ ctor.out = "panic" /\ ~ctor.arr.live

\* ---------------------------------------------------------------------------
\* C16. When append or extend_from_span fails its inner-dimension check,
\* nothing has been touched: self and other have the shape, the elements and
\* the capacity they had before the call, and no object was moved, cloned or
\* destructed.
C16_FailureTouchesNothing ==
    [][(last'.op \in {"append", "extend_from_span"} /\ last'.out = "panic") =>
          /\ ~IsEmpty("a") /\ Inner(g["a"].shape) # Inner(g["b"].shape)
          /\ g' = g /\ raw' = raw
          /\ last'.was.a = g["a"].vec /\ last'.was.b = g["b"].vec
          /\ last'.dropped = <<>>]_vars

\* a full 1 x 1 array refused a 2 x 1 array whose elements it had no room for
C16_Witness ==
    /\ last.op = "append" /\ last.out = "panic"
    /\ g["a"].shape = <<1, 1>> /\ g["a"].vec = <<1>> /\ g["a"].cap = 1
    /\ g["b"].shape = <<2, 1>> /\ g["b"].vec = <<2, 3>>

====
